---- MODULE Spec2Model ----
(***************************************************************************)
(* Model of the periodic task library (package periodic).                  *)
(*                                                                         *)
(* One periodicTask (periodic_task.go) driven by a caller goroutine, with  *)
(* the Tick Sources it creates (ticker.go: the timer-backed timeTicker     *)
(* with its forwarding goroutine, or the TestTicker whose ticks the test   *)
(* driver sends), the supervising loop goroutine of every cycle, the       *)
(* invocation goroutines the loop spawns, and the Stop goroutines an       *)
(* invocation spawns when the task function fails.                         *)
(***************************************************************************)
EXTENDS Integers, FiniteSets, Sequences, TLC

\* ---------------------------------------------------------------- bounds
MaxCycles == 2      \* Tick Sources one task creates (Starts that take effect)
MaxTicks  == 1      \* ticks beyond the immediate first ones (clock or driver)
MaxTLTicks == 3    \* ticks put in the stream of a TickLoop call
MaxFns     == 3    \* functions given to Seq
MaxAttempts == 3   \* the attempts argument of a retry policy
MaxCallers == 3    \* goroutines calling a NoOverlap or Sync function
MaxInv    == MaxCycles + MaxTicks   \* every tick spawns at most one invocation

Cycles == 1..MaxCycles
Invs   == 1..MaxInv

\* ---------------------------------------------------------------- values
Nil        == "nil"
Canceled   == "context canceled"
ErrStopped == "stopped"             \* periodic_task.go:11
TaskErrs   == {"E1", "E2"}          \* errors the task function may return
Errors     == {Nil, ErrStopped} \cup TaskErrs

NoTicker == 0                       \* pt.ticker == nil
Free     == -1                      \* stateMux not held
Caller   == 0                       \* the goroutine calling Start/Stop/Wait
Stoppers == {Caller} \cup Invs      \* goroutines that may run pt.Stop()

VARIABLES
    kind,       \* pt.tickerConstructor: "time" (NewTicker) or "test" (NewTestTicker)
    stateMux,   \* pt.stateMux: Free or the goroutine holding it
    ticker,     \* pt.ticker: NoTicker or the id of the current Tick Source
    err,        \* pt.err
    wg,         \* pt.wg counter
    nTickers,   \* Tick Sources created so far; ids are 1..nTickers
    ch,         \* per Tick Source: ticks in the capacity-1 stream
    closed,     \* per Tick Source: stream closed
    stopped,    \* per timeTicker: stopped flag, stop channel closed, timer stopped
    stopMux,    \* per timeTicker: stopMux held
    tC,         \* per timeTicker: ticks in time.Ticker.C (capacity 1)
    fwd,        \* per timeTicker: position of the forwarding goroutine
    loop,       \* per cycle: position of the supervising loop goroutine
    ctxDone,    \* per cycle: the loop's context has been cancelled
    ctxCause,   \* per cycle: the cause the context was cancelled with
    inv,        \* per invocation: [cyc, pc, res]
    nInv,       \* invocations spawned so far
    stopPc,     \* per Stop() caller: position inside pt.Stop()
    callerPc,   \* position of the caller goroutine
    \* history (observation only, never read by the program's actions)
    spawned,    \* per cycle: invocations spawned by its loop
    failed,     \* per cycle: an invocation returned a non-nil error, context live
    dropped,    \* an invocation returned a non-nil error, context cancelled
    clockTicks, \* ticks produced beyond the immediate first ones
    timely,     \* every period boundary and every Stop() call so far found
                \* the goroutines of the program at rest
    recorded,   \* an invocation stored its error since the last effective Start
    lastOp,     \* last call the caller completed ("waitStopped": a Wait()
                \* that returned after a Stop() with no Start() in between)
    script,     \* calls completed while following Start;Stop;Wait cycles, or -1
    \* TickLoop (one call of the function)
    tlPc,       \* position of TickLoop: "none" (not called), "select", "load"
                \* (tick received, closed.Load() next), "defers", "returned"
    tlRet,      \* the error TickLoop returns
    tlTicks,    \* ticks waiting in the tick stream
    tlClosed,   \* the tick stream has been closed
    tlParent,   \* the parent context has been cancelled
    tlCause,    \* cause of the cancellation of the derived context, or Nil
    tlGuard,    \* the atomic.Bool closed
    tlErrClosed,\* errCh has been closed
    tlInv,      \* per invocation goroutine: [pc, res]
    tlN,        \* invocation goroutines spawned so far
    \* history of the TickLoop call
    tlSent,     \* ticks put in the stream so far
    tlFirst,    \* the error of the invocation that won the guard, or Nil
    tlDiscarded,\* an invocation returned a non-nil error with the guard set
    \* the combinators of package utils
    ut          \* the call of a combinator in progress: a record of the
                \* combinator's name (util), the local variables of the call
                \* and what it has done so far; [util |-> "none"] without one

prog == <<kind, stateMux, ticker, err, wg, nTickers, ch, closed, stopped,
          stopMux, tC, fwd, loop, ctxDone, ctxCause, inv, nInv, stopPc,
          callerPc>>
hist == <<spawned, failed, dropped, clockTicks, timely, recorded, lastOp,
          script>>
tlVars == <<tlPc, tlRet, tlTicks, tlClosed, tlParent, tlCause, tlGuard,
            tlErrClosed, tlInv, tlN, tlSent, tlFirst, tlDiscarded>>
vars == <<prog, hist, tlVars, ut>>

tickerVars == <<ch, closed, stopped, stopMux, tC, fwd>>
taskVars   == <<stateMux, ticker, err, nTickers>>

NoInv == [cyc |-> 0, pc |-> "none", res |-> Nil]

TLInvs  == 1..MaxTLTicks
NoTLInv == [pc |-> "none", res |-> Nil]

\* The variables of a TickLoop call, with the loop at position pc and nothing
\* sent, closed, cancelled or spawned yet (tick_loop_test.go:136-143).
TLFresh(pc) ==
    /\ tlPc = pc
    /\ tlRet = Nil
    /\ tlTicks = 0
    /\ tlClosed = FALSE
    /\ tlParent = FALSE
    /\ tlCause = Nil
    /\ tlGuard = FALSE
    /\ tlErrClosed = FALSE
    /\ tlInv = [i \in TLInvs |-> NoTLInv]
    /\ tlN = 0
    /\ tlSent = 0
    /\ tlFirst = Nil
    /\ tlDiscarded = FALSE

DeadlineExceeded == "context deadline exceeded"
CtxErrs == {Nil, Canceled, DeadlineExceeded}

Callers  == 1..MaxCallers
Pending  == "pending"                    \* a call that has not returned

\* No combinator is under call.
UtilNone == [util |-> "none"]

\* ------------------------------------------------------------------ Init
\* NewTask: a stopped instance, no ticker, no error (periodic_task.go:48-58).
NewTask ==
    /\ kind \in {"time", "test"}
    /\ stateMux = Free
    /\ ticker = NoTicker
    /\ err = Nil
    /\ wg = 0
    /\ nTickers = 0
    /\ ch = [c \in Cycles |-> 0]
    /\ closed = [c \in Cycles |-> FALSE]
    /\ stopped = [c \in Cycles |-> FALSE]
    /\ stopMux = [c \in Cycles |-> FALSE]
    /\ tC = [c \in Cycles |-> 0]
    /\ fwd = [c \in Cycles |-> "none"]
    /\ loop = [c \in Cycles |-> "none"]
    /\ ctxDone = [c \in Cycles |-> FALSE]
    /\ ctxCause = [c \in Cycles |-> Nil]
    /\ inv = [i \in Invs |-> NoInv]
    /\ nInv = 0
    /\ stopPc = [p \in Stoppers |-> "none"]
    /\ callerPc = "idle"
    /\ spawned = [c \in Cycles |-> 0]
    /\ failed = [c \in Cycles |-> FALSE]
    /\ dropped = FALSE
    /\ clockTicks = 0
    /\ timely = TRUE
    /\ recorded = FALSE
    /\ lastOp = "none"
    /\ script = 0

\* A Periodic Task after construction; TickLoop is not called.
Init == NewTask /\ TLFresh("none") /\ ut = UtilNone

\* ------------------------------------------------------- caller history
\* The call expected at position k of the script Start;Stop;Wait;Start;...
ScriptOp(k) == IF k % 3 = 0 THEN "start" ELSE IF k % 3 = 1 THEN "stop" ELSE "wait"

\* The call behind a completed operation; a call that found nothing to do is
\* remembered as "startNoop" or "stopNoop".
BaseOp(op) == IF op = "startNoop" THEN "start"
              ELSE IF op = "stopNoop" THEN "stop"
              ELSE IF op = "waitStopped" THEN "wait" ELSE op

\* A caller Stop() has returned and no Start() has returned since.
StopSeen == lastOp \in {"stop", "stopNoop", "waitStopped"}

ScriptNext(s, op) == IF s >= 0 /\ ScriptOp(s) = BaseOp(op) THEN s + 1 ELSE -1

Returned(op) ==
    /\ lastOp' = IF op = "wait" /\ StopSeen THEN "waitStopped" ELSE op
    /\ script' = ScriptNext(script, op)

CallerReturns(op) == callerPc' = "idle" /\ Returned(op)

\* ------------------------------------------------- periodicTask.Start
\* A Start that never takes the early return.
StartNeverNoop(t) == FALSE

\* periodic_task.go:64: Start returns at once while a ticker is set.
StartIsNoop(t) == t # NoTicker

\* A Start that leaves the error of the previous cycle in place.
StartErrKept(e) == e

\* periodic_task.go:68: an effective Start clears the stored error.
StartErr(e) == Nil

CallStart ==
    /\ callerPc = "idle"
    /\ nTickers < MaxCycles
    /\ callerPc' = "start"
    /\ UNCHANGED <<ut, tlVars, kind, stateMux, ticker, err, wg, nTickers,
                   tickerVars, loop, ctxDone, ctxCause, inv, nInv, stopPc,
                   hist>>

\* The body of Start, run with stateMux held from Lock to the deferred Unlock.
Start ==
    /\ callerPc = "start"
    /\ stateMux = Free
    /\ IF StartIsNoop(ticker)
       THEN UNCHANGED <<ticker, err, wg, nTickers, fwd, loop, recorded>>
       ELSE /\ wg' = wg + 1
            /\ err' = StartErr(err)
            /\ nTickers' = nTickers + 1
            /\ ticker' = nTickers + 1
            \* NewTicker starts the forwarding goroutine; NewTestTicker has none.
            /\ fwd' = [fwd EXCEPT ![nTickers + 1] =
                          IF kind = "time" THEN "first" ELSE "none"]
            /\ loop' = [loop EXCEPT ![nTickers + 1] = "run"]
            /\ recorded' = FALSE
    /\ CallerReturns(IF StartIsNoop(ticker) THEN "startNoop" ELSE "start")
    /\ UNCHANGED <<ut, tlVars, kind, stateMux, ch, closed, stopped, stopMux,
                   tC, ctxDone, ctxCause, inv, nInv, stopPc, spawned, failed,
                   dropped, clockTicks, timely>>

\* -------------------------------------------------- periodicTask.Stop
\* A Stop that never takes the early return.
StopNeverNoop(t) == FALSE

\* periodic_task.go:78: Stop returns at once while no ticker is set.
StopIsNoop(t) == t = NoTicker

\* A Stop that records ErrStopped whatever error is stored.
StopErrOverwrites(e) == ErrStopped

\* A Stop that records nothing.
StopErrKept(e) == e

\* periodic_task.go:84-86: Stop records ErrStopped only over a nil error.
StopErr(e) == IF e = Nil THEN ErrStopped ELSE e

\* The goroutines of the Tick Sources and the loops have nothing left to do:
\* every tick produced so far has been forwarded and taken from the stream.
AtRest ==
    \A c \in 1..nTickers :
        fwd[c] \in {"none", "select", "done"} /\ tC[c] = 0 /\ ch[c] = 0

CallStop ==
    /\ callerPc = "idle"
    /\ callerPc' = "stop"
    /\ stopPc' = [stopPc EXCEPT ![Caller] = "lock"]
    /\ timely' = (timely /\ AtRest)
    /\ UNCHANGED <<ut, tlVars, kind, stateMux, ticker, err, wg, nTickers,
                   tickerVars, loop, ctxDone, ctxCause, inv, nInv, spawned,
                   failed, dropped, clockTicks, recorded, lastOp, script>>

StopReturnsAfterInvocations(p, op) ==
    /\ \A i \in Invs : inv[i].pc # "fn"
    /\ stopPc' = [stopPc EXCEPT ![p] = "none"]
    /\ IF p = Caller THEN CallerReturns(op)
                     ELSE UNCHANGED <<callerPc, lastOp, script>>

StopReturns(p, op) ==
    /\ stopPc' = [stopPc EXCEPT ![p] = "none"]
    /\ IF p = Caller THEN CallerReturns(op)
                     ELSE UNCHANGED <<callerPc, lastOp, script>>

\* Stop takes stateMux and tests pt.ticker; with a ticker set it goes on to
\* ticker.Destroy() still holding stateMux.
StopLock(p) ==
    /\ stopPc[p] = "lock"
    /\ stateMux = Free
    /\ IF StopIsNoop(ticker)
       THEN /\ StopReturns(p, "stopNoop")
            /\ UNCHANGED stateMux
       ELSE /\ stateMux' = p
            /\ stopPc' = [stopPc EXCEPT ![p] = "destroy"]
            /\ UNCHANGED <<callerPc, lastOp, script>>
    /\ UNCHANGED <<ut, tlVars, kind, ticker, err, wg, nTickers, tickerVars,
                   loop, ctxDone, ctxCause, inv, nInv, spawned, failed,
                   dropped, clockTicks, timely, recorded>>

StopTickerKept(t) == t

\* periodic_task.go:83: Stop forgets the Tick Source it has destroyed.
StopTicker(t) == NoTicker

StopKeepsLock(p) == p

\* periodic_task.go:76: the deferred pt.stateMux.Unlock() of the Stop run
\* by p leaves the lock free.
StopUnlock(p) == Free

StreamLeftOpen == FALSE

\* ticker.go:59 and :77: Destroy closes the stream.
StreamClosed == TRUE

\* timeTicker.Destroy (ticker.go:52-60) under stopMux: stopped flag set, stop
\* channel closed, timer stopped, stream closed.  TestTicker.Destroy
\* (ticker.go:77) only closes the stream.  Then Stop clears pt.ticker and
\* records the error (periodic_task.go:82-86) and the deferred Unlock runs.
StopDestroy(p) ==
    /\ stopPc[p] = "destroy"
    /\ stateMux = p
    /\ ~stopMux[ticker]
    /\ stopped' = [stopped EXCEPT ![ticker] = (kind = "time")]
    /\ closed' = [closed EXCEPT ![ticker] = StreamClosed]
    /\ ticker' = StopTicker(ticker)
    /\ err' = StopErr(err)
    /\ stateMux' = StopUnlock(p)
    /\ StopReturns(p, "stop")
    /\ UNCHANGED <<ut, tlVars, kind, wg, nTickers, ch, stopMux, tC, fwd, loop,
                   ctxDone, ctxCause, inv, nInv, spawned, failed, dropped,
                   clockTicks, timely, recorded>>

\* -------------------------------------------------- periodicTask.Wait
CallWait ==
    /\ callerPc = "idle"
    /\ callerPc' = "wait"
    /\ UNCHANGED <<ut, tlVars, kind, stateMux, ticker, err, wg, nTickers,
                   tickerVars, loop, ctxDone, ctxCause, inv, nInv, stopPc,
                   hist>>

\* wg.Wait() returns once the counter is zero (periodic_task.go:89-91).
Wait ==
    /\ callerPc = "wait"
    /\ wg = 0
    /\ CallerReturns("wait")
    /\ UNCHANGED <<ut, tlVars, kind, stateMux, ticker, err, wg, nTickers,
                   tickerVars, loop, ctxDone, ctxCause, inv, nInv, stopPc,
                   spawned, failed, dropped, clockTicks, timely, recorded>>

\* ------------------------------------------------------- Tick Sources
\* The test driver's pt.ticker.(TestTicker) <- tick: a send on the
\* capacity-1 stream of the current TestTicker.
TestTick ==
    /\ kind = "test"
    /\ callerPc = "idle"
    /\ ticker # NoTicker
    /\ ch[ticker] = 0
    /\ clockTicks < MaxTicks
    /\ ch' = [ch EXCEPT ![ticker] = 1]
    /\ clockTicks' = clockTicks + 1
    /\ lastOp' = "tick"
    /\ script' = -1
    /\ UNCHANGED <<ut, tlVars, kind, stateMux, ticker, err, wg, nTickers,
                   closed, stopped, stopMux, tC, fwd, loop, ctxDone, ctxCause,
                   inv, nInv, stopPc, callerPc, spawned, failed, dropped,
                   timely, recorded>>

\* A period boundary of the time.Ticker of a timeTicker that has not been
\* stopped: the runtime puts a tick in t.C, dropping it when t.C is full.
ClockTick(c) ==
    /\ kind = "time"
    /\ c <= nTickers
    /\ ~stopped[c]
    /\ clockTicks < MaxTicks
    /\ tC' = [tC EXCEPT ![c] = 1]
    /\ clockTicks' = clockTicks + 1
    /\ timely' = (timely /\ AtRest /\ callerPc \in {"idle", "wait"})
    /\ UNCHANGED <<ut, tlVars, kind, stateMux, ticker, err, wg, nTickers, ch,
                   closed, stopped, stopMux, fwd, loop, ctxDone, ctxCause,
                   inv, nInv, stopPc, callerPc, spawned, failed, dropped,
                   recorded, lastOp, script>>

\* ticker.go:31 and :40: a tick is forwarded unless the stopped flag is set.
ForwardsNothing(s) == FALSE

ForwardsAlways(s) == TRUE

ForwardsWhenStopped(s) == s

Forwards(s) == ~s

\* ticker.go:30-34: the forwarding goroutine sends the first tick under stopMux.
\* The stream is empty, so the send does not block.
FwdFirst(c) ==
    /\ fwd[c] = "first"
    /\ ~stopMux[c]
    /\ ch' = [ch EXCEPT ![c] = IF Forwards(stopped[c]) THEN 1 ELSE ch[c]]
    /\ fwd' = [fwd EXCEPT ![c] = "select"]
    /\ UNCHANGED <<ut, tlVars, kind, stateMux, ticker, err, wg, nTickers,
                   closed, stopped, stopMux, tC, loop, ctxDone, ctxCause, inv,
                   nInv, stopPc, callerPc, hist>>

\* ticker.go:38: the select takes a tick from t.C.
FwdRecv(c) ==
    /\ fwd[c] = "select"
    /\ tC[c] = 1
    /\ tC' = [tC EXCEPT ![c] = 0]
    /\ fwd' = [fwd EXCEPT ![c] = "lock"]
    /\ UNCHANGED <<ut, tlVars, kind, stateMux, ticker, err, wg, nTickers, ch,
                   closed, stopped, stopMux, loop, ctxDone, ctxCause, inv,
                   nInv, stopPc, callerPc, hist>>

\* ticker.go:44-45: the select sees the stop channel closed and returns.
FwdQuit(c) ==
    /\ fwd[c] = "select"
    /\ stopped[c]
    /\ fwd' = [fwd EXCEPT ![c] = "done"]
    /\ UNCHANGED <<ut, tlVars, kind, stateMux, ticker, err, wg, nTickers, ch,
                   closed, stopped, stopMux, tC, loop, ctxDone, ctxCause, inv,
                   nInv, stopPc, callerPc, hist>>

\* ticker.go:39-43: under stopMux, forward the tick unless stopped.  With the
\* stream's slot full the goroutine blocks in the send, holding stopMux.
FwdLock(c) ==
    /\ fwd[c] = "lock"
    /\ ~stopMux[c]
    /\ IF ~Forwards(stopped[c])
       THEN /\ fwd' = [fwd EXCEPT ![c] = "select"]
            /\ UNCHANGED <<ch, stopMux>>
       ELSE IF ch[c] = 0
       THEN /\ ch' = [ch EXCEPT ![c] = 1]
            /\ fwd' = [fwd EXCEPT ![c] = "select"]
            /\ UNCHANGED stopMux
       ELSE /\ stopMux' = [stopMux EXCEPT ![c] = TRUE]
            /\ fwd' = [fwd EXCEPT ![c] = "send"]
            /\ UNCHANGED ch
    /\ UNCHANGED <<ut, tlVars, kind, stateMux, ticker, err, wg, nTickers,
                   closed, stopped, tC, loop, ctxDone, ctxCause, inv, nInv,
                   stopPc, callerPc, hist>>

\* ticker.go:41-43: the blocked send completes once the slot is free.
FwdSend(c) ==
    /\ fwd[c] = "send"
    /\ ch[c] = 0
    /\ ch' = [ch EXCEPT ![c] = 1]
    /\ stopMux' = [stopMux EXCEPT ![c] = FALSE]
    /\ fwd' = [fwd EXCEPT ![c] = "select"]
    /\ UNCHANGED <<ut, tlVars, kind, stateMux, ticker, err, wg, nTickers,
                   closed, stopped, tC, loop, ctxDone, ctxCause, inv, nInv,
                   stopPc, callerPc, hist>>

\* -------------------------------------------------- periodicTask.loop
\* A loop that spawns the invocation without counting it.
SpawnAddMissing(w) == w

\* periodic_task.go:108: the loop counts the invocation before spawning it.
SpawnAdd(w) == w + 1

SpawnMuxTaken(m, i) == i

\* periodic_task.go:113-116: pt.run calls the task function without taking
\* stateMux; spawning invocation i leaves the holder m of the lock as it is.
SpawnMux(m, i) == m

LoopTakesWhenIdle(c) ==
    /\ loop[c] = "run"
    /\ ch[c] = 1
    /\ \A i \in Invs : inv[i].cyc = c => inv[i].pc # "fn"

\* periodic_task.go:107: the range takes a tick as soon as the stream holds
\* one; the loop waits for nothing else (go pt.run at line 109 returns at
\* once).
LoopTakes(c) ==
    /\ loop[c] = "run"
    /\ ch[c] = 1

\* periodic_task.go:107-110: a tick taken from the stream spawns pt.run(ctx).
LoopTick(c) ==
    /\ LoopTakes(c)
    /\ ch' = [ch EXCEPT ![c] = 0]
    /\ wg' = SpawnAdd(wg)
    /\ nInv' = nInv + 1
    /\ inv' = [inv EXCEPT ![nInv + 1] = [cyc |-> c, pc |-> "fn", res |-> Nil]]
    /\ spawned' = [spawned EXCEPT ![c] = @ + 1]
    /\ stateMux' = SpawnMux(stateMux, nInv + 1)
    /\ UNCHANGED <<ut, tlVars, kind, ticker, err, nTickers, closed, stopped,
                   stopMux, tC, fwd, loop, ctxDone, ctxCause, stopPc,
                   callerPc, failed, dropped, clockTicks, timely, recorded,
                   lastOp, script>>

LoopCauseCanceled == Canceled

\* periodic_task.go:103: the loop cancels its context with cause ErrStopped.
LoopCause == ErrStopped

\* periodic_task.go:107, 100-103: the range ends on the closed, drained
\* stream; the deferred cancel(ErrStopped) and wg.Done() run.
LoopExit(c) ==
    /\ loop[c] = "run"
    /\ ch[c] = 0
    /\ closed[c]
    /\ loop' = [loop EXCEPT ![c] = "done"]
    /\ ctxDone' = [ctxDone EXCEPT ![c] = TRUE]
    /\ ctxCause' = [ctxCause EXCEPT ![c] = LoopCause]
    /\ wg' = wg - 1
    /\ UNCHANGED <<ut, tlVars, kind, stateMux, ticker, err, nTickers,
                   tickerVars, inv, nInv, stopPc, callerPc, hist>>

\* --------------------------------------------------- periodicTask.run
\* periodic_task.go:117: the error is recorded when it is non-nil and the
\* context is not cancelled.
RunRecordsAnyContext(r, done) == r # Nil

RunRecords(r, done) == r # Nil /\ ~done

\* pt.task(ctx) returns r and the condition of line 117 is evaluated.
FnReturn(i, r) ==
    /\ inv[i].pc = "fn"
    /\ IF RunRecords(r, ctxDone[inv[i].cyc])
       THEN /\ inv' = [inv EXCEPT ![i].pc = "lock", ![i].res = r]
            /\ failed' = [failed EXCEPT ![inv[i].cyc] = TRUE]
            /\ UNCHANGED <<wg, dropped>>
       ELSE /\ inv' = [inv EXCEPT ![i].pc = "done"]
            /\ wg' = wg - 1
            /\ dropped' = (dropped \/ r # Nil)
            /\ UNCHANGED failed
    /\ UNCHANGED <<ut, tlVars, kind, stateMux, ticker, err, nTickers,
                   tickerVars, loop, ctxDone, ctxCause, nInv, stopPc,
                   callerPc, spawned, clockTicks, timely, recorded, lastOp,
                   script>>

\* periodic_task.go:118-122 and the deferred calls: under stateMux store the
\* error and spawn pt.Stop(); then Unlock and wg.Done().
RunRecord(i) ==
    /\ inv[i].pc = "lock"
    /\ stateMux = Free
    /\ err' = inv[i].res
    /\ stopPc' = [stopPc EXCEPT ![i] = "lock"]
    /\ inv' = [inv EXCEPT ![i].pc = "done", ![i].res = Nil]
    /\ wg' = wg - 1
    /\ recorded' = TRUE
    /\ UNCHANGED <<ut, tlVars, kind, stateMux, ticker, nTickers, tickerVars,
                   loop, ctxDone, ctxCause, nInv, callerPc, spawned, failed,
                   dropped, clockTicks, timely, lastOp, script>>

\* ------------------------------------------------------------ the system
Next ==
    \/ CallStart
    \/ Start
    \/ CallStop
    \/ \E p \in Stoppers : StopLock(p)
    \/ \E p \in Stoppers : StopDestroy(p)
    \/ CallWait
    \/ Wait
    \/ TestTick
    \/ \E c \in Cycles : ClockTick(c)
    \/ \E c \in Cycles : FwdFirst(c)
    \/ \E c \in Cycles : FwdRecv(c)
    \/ \E c \in Cycles : FwdQuit(c)
    \/ \E c \in Cycles : FwdLock(c)
    \/ \E c \in Cycles : FwdSend(c)
    \/ \E c \in Cycles : LoopTick(c)
    \/ \E c \in Cycles : LoopExit(c)
    \/ \E i \in Invs, r \in {Nil} \cup TaskErrs : FnReturn(i, r)
    \/ \E i \in Invs : RunRecord(i)

Spec == Init /\ [][Next]_vars

\* The goroutines of the program are scheduled: a step of the forwarding
\* goroutine, the loop, an invocation past its call of the task function, or
\* a Stop() in progress is taken if it stays possible.  Nothing is assumed
\* of the caller, the clock, or the time the task function takes.
Fairness ==
    /\ \A c \in Cycles :
          /\ WF_vars(FwdFirst(c))
          /\ WF_vars(FwdRecv(c))
          /\ WF_vars(FwdQuit(c))
          /\ WF_vars(FwdLock(c))
          /\ WF_vars(FwdSend(c))
          /\ WF_vars(LoopTick(c))
          /\ WF_vars(LoopExit(c))
    /\ \A i \in Invs : WF_vars(RunRecord(i))
    /\ \A p \in Stoppers : WF_vars(StopLock(p)) /\ WF_vars(StopDestroy(p))

FairSpec == Spec /\ Fairness

\* The caller's goroutine is scheduled too while it is inside Start().
CallFairSpec == FairSpec /\ WF_vars(Start)

TypeOK ==
    /\ kind \in {"time", "test"}
    /\ stateMux \in {Free} \cup Stoppers
    /\ ticker \in {NoTicker} \cup Cycles
    /\ err \in Errors
    /\ wg \in 0..(MaxCycles + MaxInv)
    /\ nTickers \in 0..MaxCycles
    /\ nInv \in 0..MaxInv
    /\ \A c \in Cycles : ch[c] \in 0..1 /\ tC[c] \in 0..1

\* =============================================================== TickLoop
\* One call TickLoop(ticks, ctx, task), tick_loop_test.go:135-162.  The caller
\* of TickLoop owns the tick stream and the parent context.

\* The caller puts a tick in the stream.
TLSendTick ==
    /\ tlPc # "none"
    /\ ~tlClosed
    /\ tlSent < MaxTLTicks
    /\ tlTicks' = tlTicks + 1
    /\ tlSent' = tlSent + 1
    /\ UNCHANGED <<ut, prog, hist, tlPc, tlRet, tlClosed, tlParent, tlCause,
                   tlGuard, tlErrClosed, tlInv, tlN, tlFirst, tlDiscarded>>

\* The caller closes the stream.
TLCloseTicks ==
    /\ tlPc # "none"
    /\ ~tlClosed
    /\ tlClosed' = TRUE
    /\ UNCHANGED <<ut, prog, hist, tlPc, tlRet, tlTicks, tlParent, tlCause,
                   tlGuard, tlErrClosed, tlInv, tlN, tlSent, tlFirst,
                   tlDiscarded>>

\* context: the first cancellation of a context sets its cause.
Cancelled(cause, by) == IF cause = Nil THEN by ELSE cause

\* The caller cancels the parent context, which cancels the derived one.
TLCancel ==
    /\ tlPc # "none"
    /\ ~tlParent
    /\ tlParent' = TRUE
    /\ tlCause' = Cancelled(tlCause, Canceled)
    /\ UNCHANGED <<ut, prog, hist, tlPc, tlRet, tlTicks, tlClosed, tlGuard,
                   tlErrClosed, tlInv, tlN, tlSent, tlFirst, tlDiscarded>>

\* The deferred calls are pending and the loop has its return value.
TLReturn(e) == tlRet' = e /\ tlPc' = "defers"

TLStreamEndedEarly(n, c) == c

\* A receive from the stream reports !ok when it is closed and drained.
TLStreamEnded(n, c) == n = 0 /\ c

\* tick_loop_test.go:147: the select takes a tick from the stream.
TLRecvTick ==
    /\ tlPc = "select"
    /\ tlTicks > 0
    /\ ~TLStreamEnded(tlTicks, tlClosed)
    /\ tlTicks' = tlTicks - 1
    /\ tlPc' = "load"
    /\ UNCHANGED <<ut, prog, hist, tlRet, tlClosed, tlParent, tlCause,
                   tlGuard, tlErrClosed, tlInv, tlN, tlSent, tlFirst,
                   tlDiscarded>>

\* tick_loop_test.go:147-149: the select finds the stream closed.
TLRecvClosed ==
    /\ tlPc = "select"
    /\ TLStreamEnded(tlTicks, tlClosed)
    /\ TLReturn(ErrStopped)
    /\ UNCHANGED <<ut, prog, hist, tlTicks, tlClosed, tlParent, tlCause,
                   tlGuard, tlErrClosed, tlInv, tlN, tlSent, tlFirst,
                   tlDiscarded>>

\* tick_loop_test.go:148-155: with a tick in hand, closed.Load() decides
\* between returning ErrStopped and spawning an invocation goroutine.
TLLoad ==
    /\ tlPc = "load"
    /\ IF tlGuard
       THEN /\ TLReturn(ErrStopped)
            /\ UNCHANGED <<tlInv, tlN>>
       ELSE /\ tlN' = tlN + 1
            /\ tlInv' = [tlInv EXCEPT ![tlN + 1].pc = "fn"]
            /\ tlPc' = "select"
            /\ UNCHANGED tlRet
    /\ UNCHANGED <<ut, prog, hist, tlTicks, tlClosed, tlParent, tlCause,
                   tlGuard, tlErrClosed, tlSent, tlFirst, tlDiscarded>>

TLCtxErrStopped(cause) == ErrStopped

\* context: Err() of a cancelled context is context.Canceled, whatever the
\* cause.
TLCtxErr(cause) == IF cause = Nil THEN Nil ELSE Canceled

\* tick_loop_test.go:156-157: the select finds the derived context done.
TLCtxDone ==
    /\ tlPc = "select"
    /\ tlCause # Nil
    /\ TLReturn(TLCtxErr(tlCause))
    /\ UNCHANGED <<ut, prog, hist, tlTicks, tlClosed, tlParent, tlCause,
                   tlGuard, tlErrClosed, tlInv, tlN, tlSent, tlFirst,
                   tlDiscarded>>

\* tick_loop_test.go:158-159 and :153: the select receives from errCh the
\* error invocation i is sending; the send completes.
TLRecvErr(i) ==
    /\ tlPc = "select"
    /\ tlInv[i].pc = "send"
    /\ TLReturn(tlInv[i].res)
    /\ tlInv' = [tlInv EXCEPT ![i].pc = "done"]
    /\ UNCHANGED <<ut, prog, hist, tlTicks, tlClosed, tlParent, tlCause,
                   tlGuard, tlErrClosed, tlN, tlSent, tlFirst, tlDiscarded>>

\* tick_loop_test.go:143, 141, 138, in this order: closed.Store(true),
\* close(errCh), cancel(ErrStopped).  A goroutine blocked sending on errCh
\* panics when the channel is closed.
TLDefers ==
    /\ tlPc = "defers"
    /\ tlGuard' = TRUE
    /\ tlErrClosed' = TRUE
    /\ tlInv' = [i \in TLInvs |->
                    IF tlInv[i].pc = "send"
                    THEN [tlInv[i] EXCEPT !.pc = "panic"] ELSE tlInv[i]]
    /\ tlCause' = Cancelled(tlCause, ErrStopped)
    /\ tlPc' = "returned"
    /\ UNCHANGED <<ut, prog, hist, tlRet, tlTicks, tlClosed, tlParent, tlN,
                   tlSent, tlFirst, tlDiscarded>>

TLReportsUnguarded(r, g) == r # Nil

\* tick_loop_test.go:152: err != nil && !closed.Swap(true).
TLReports(r, g) == r # Nil /\ ~g

\* tick_loop_test.go:152-153: adaptedTask(ctx) returns r; closed.Swap(true)
\* is called for a non-nil r, and the goroutine that found it false goes on
\* to send r on errCh.
TLFnReturn(i, r) ==
    /\ tlInv[i].pc = "fn"
    /\ tlGuard' = (tlGuard \/ r # Nil)
    /\ IF TLReports(r, tlGuard)
       THEN /\ tlInv' = [tlInv EXCEPT ![i] = [pc |-> "send", res |-> r]]
            /\ tlFirst' = r
            /\ UNCHANGED tlDiscarded
       ELSE /\ tlInv' = [tlInv EXCEPT ![i].pc = "done"]
            /\ tlDiscarded' = (tlDiscarded \/ r # Nil)
            /\ UNCHANGED tlFirst
    /\ UNCHANGED <<ut, prog, hist, tlPc, tlRet, tlTicks, tlClosed, tlParent,
                   tlCause, tlErrClosed, tlN, tlSent>>

\* TickLoop has been called with an open, empty stream and a live context.
TLInit == NewTask /\ kind = "test" /\ TLFresh("select") /\ ut = UtilNone

TLNext ==
    \/ TLSendTick
    \/ TLCloseTicks
    \/ TLCancel
    \/ TLRecvTick
    \/ TLRecvClosed
    \/ TLLoad
    \/ TLCtxDone
    \/ \E i \in TLInvs : TLRecvErr(i)
    \/ TLDefers
    \/ \E i \in TLInvs, r \in {Nil} \cup TaskErrs : TLFnReturn(i, r)

TLSpec == TLInit /\ [][TLNext]_vars

TLTypeOK ==
    /\ tlPc \in {"none", "select", "load", "defers", "returned"}
    /\ tlRet \in {Nil, ErrStopped, Canceled} \cup TaskErrs
    /\ tlTicks \in 0..MaxTLTicks
    /\ tlN \in 0..MaxTLTicks
    /\ tlSent \in 0..MaxTLTicks
    /\ tlCause \in {Nil, ErrStopped, Canceled}
    /\ \A i \in TLInvs :
          tlInv[i].pc \in {"none", "fn", "send", "done", "panic"}

\* ============================================================ combinators
\* The function wrappers of package utils, utils/adapt_test.go:69-214, each
\* under one call (NoOverlap and Sync: one call by each of MaxCallers
\* goroutines).  A wrapped function returns any of Errors.  ut holds the
\* call: ut.util names the combinator, ut.pc (per caller for NoOverlap and
\* Sync) the position in its body, ut.ctx the Err() of the context passed to
\* it (Nil while live); the other fields are the variables of the body and a
\* history of the call.

\* Every action below leaves the Periodic Task and TickLoop untouched.
Others == <<prog, hist, tlVars>>

\* The owner of the context cancels it, or its deadline passes.
UCancel(c) ==
    /\ ut.util \in {"retry", "log"}
    /\ ut.ctx = Nil
    /\ ut' = [ut EXCEPT !.ctx = c]
    /\ UNCHANGED Others

\* ----------------------------------------------------------------- Seq
\* Seq about to range over functions returning rs (adapt_test.go:72-73):
\* i is the index of the range, calls the indices of the functions called,
\* in call order, ret the returned error.
SeqStart(rs) ==
    [util |-> "seq", pc |-> "run", res |-> rs, i |-> 1, calls |-> <<>>,
     ret |-> Pending]

SeqStopsNever(e) == FALSE

\* adapt_test.go:74-75: a non-nil error ends the range.
SeqStops(e) == e # Nil

\* adapt_test.go:73-76: the next function of the range is called.
SeqCall ==
    /\ ut.util = "seq"
    /\ ut.pc = "run"
    /\ ut.i <= Len(ut.res)
    /\ ut' = IF SeqStops(ut.res[ut.i])
             THEN [ut EXCEPT !.calls = Append(@, ut.i),
                             !.ret = ut.res[ut.i], !.pc = "done"]
             ELSE [ut EXCEPT !.calls = Append(@, ut.i), !.i = @ + 1]
    /\ UNCHANGED Others

\* adapt_test.go:78: the range is over, Seq returns nil.
SeqEnd ==
    /\ ut.util = "seq"
    /\ ut.pc = "run"
    /\ ut.i > Len(ut.res)
    /\ ut' = [ut EXCEPT !.ret = Nil, !.pc = "done"]
    /\ UNCHANGED Others

\* --------------------------------------------------------------- Retry
\* Retry(policy(k), fn) called with a context whose Err() is c
\* (adapt_test.go:203-205): i and err are the variables of the loop, res
\* what the attempts returned, in order, asked the times the policy was
\* consulted, ctx0 the Err() of the context at the call.
RetryStart(pol, k, c) ==
    [util |-> "retry", pc |-> "call", ctx |-> c, ctx0 |-> c, policy |-> pol,
     k |-> k, i |-> 0, err |-> Nil, res |-> <<>>, asked |-> 0]

SimpleRetryPolicyOffByOne(k, c, i, e) == i < k /\ e # Nil /\ c = Nil

SimpleRetryPolicyRetriesOnce(k, c, i, e) ==
    (i < k - 1 \/ i = 0) /\ e # Nil /\ c = Nil

\* adapt_test.go:180-184, with c the Err() of the context.
SimpleRetryPolicy(k, c, i, e) == i < k - 1 /\ e # Nil /\ c = Nil

ExponentialBackoffPolicyAnyContext(k, c, i, e) ==
    IF e # Nil THEN i < k - 1 ELSE FALSE

\* adapt_test.go:189-197; the sleep before the answer takes time only.
ExponentialBackoffPolicy(k, c, i, e) ==
    IF e # Nil /\ c = Nil THEN i < k - 1 ELSE FALSE

Policy(pol, k, c, i, e) ==
    IF pol = "simple" THEN SimpleRetryPolicy(k, c, i, e)
                      ELSE ExponentialBackoffPolicy(k, c, i, e)

RetryBreaksNever(e) == FALSE

\* adapt_test.go:208: errors.Is(err, ErrStopped), tested before the policy.
RetryBreaks(e) == e = ErrStopped

\* adapt_test.go:206-208: attempt i of the function returns r.
RetryCall(r) ==
    /\ ut.util = "retry"
    /\ ut.pc = "call"
    /\ ut' = [ut EXCEPT !.err = r, !.res = Append(@, r),
                        !.pc = IF RetryBreaks(r) THEN "done" ELSE "policy"]
    /\ UNCHANGED Others

\* adapt_test.go:208-212: the policy is consulted; Retry goes on to the next
\* attempt or returns err.
RetryConsult ==
    /\ ut.util = "retry"
    /\ ut.pc = "policy"
    /\ ut' = IF Policy(ut.policy, ut.k, ut.ctx, ut.i, ut.err)
             THEN [ut EXCEPT !.asked = @ + 1, !.i = @ + 1, !.pc = "call"]
             ELSE [ut EXCEPT !.asked = @ + 1, !.pc = "done"]
    /\ UNCHANGED Others

\* ----------------------------------------------------------------- Log
\* Log(outW, errW, name, fn) called with attempt number a in the context,
\* -1 when absent (adapt_test.go:122-123): out and errW are the records
\* written to the two sinks, ctxRet the Err() of the context when the
\* function returned.
LogStart(a, c) ==
    [util |-> "log", pc |-> "start", ctx |-> c, attempt |-> a, err |-> Nil,
     out |-> <<>>, errW |-> <<>>, ctxRet |-> Nil]

\* adapt_test.go:124-128: the info record.
LogInfo ==
    /\ ut.util = "log"
    /\ ut.pc = "start"
    /\ ut' = [ut EXCEPT
                !.out = Append(@, IF ut.attempt > 0 THEN "Retry"
                                                    ELSE "Calling"),
                !.pc = "fn"]
    /\ UNCHANGED Others

\* adapt_test.go:129: the function returns r.
LogFn(r) ==
    /\ ut.util = "log"
    /\ ut.pc = "fn"
    /\ ut' = [ut EXCEPT !.err = r, !.ctxRet = ut.ctx, !.pc = "case1"]
    /\ UNCHANGED Others

\* One more record in the error sink and the call returns err
\* (adapt_test.go:154).
LogError(rec) == [ut EXCEPT !.errW = Append(@, rec), !.pc = "done"]

LogFailedNever(e, c) == FALSE

\* adapt_test.go:131.
LogFailed(e, c) == e # Nil /\ c = Nil

\* adapt_test.go:131-148: the record of a stopped or failed execution.
LogCase1 ==
    /\ ut.util = "log"
    /\ ut.pc = "case1"
    /\ ut' = IF LogFailed(ut.err, ut.ctx)
             THEN LogError(IF ut.err = ErrStopped THEN "stopped"
                                                  ELSE "failed")
             ELSE [ut EXCEPT !.pc = "case2"]
    /\ UNCHANGED Others

\* adapt_test.go:149-150.
LogCase2 ==
    /\ ut.util = "log"
    /\ ut.pc = "case2"
    /\ ut' = IF ut.ctx = Canceled THEN LogError("cancelled")
                                  ELSE [ut EXCEPT !.pc = "case3"]
    /\ UNCHANGED Others

\* adapt_test.go:151-154.
LogCase3 ==
    /\ ut.util = "log"
    /\ ut.pc = "case3"
    /\ ut' = IF ut.ctx = DeadlineExceeded THEN LogError("deadline exceeded")
                                          ELSE [ut EXCEPT !.pc = "done"]
    /\ UNCHANGED Others

\* ----------------------------------------------------------- NoOverlap
\* NoOverlap(fn) built, its callers about to call (adapt_test.go:161-163):
\* running is the atomic, exec the executions of the function started, ret
\* what each caller's call returned.
NoOverlapStart ==
    [util |-> "nooverlap", pc |-> [p \in Callers |-> "idle"], running |-> 0,
     exec |-> 0, ret |-> [p \in Callers |-> Pending]]

NoOverlapEntersAlways(running) == TRUE

\* adapt_test.go:164: running.CompareAndSwap(0, 1) succeeds.
NoOverlapEnters(running) == running = 0

\* adapt_test.go:164-168: caller p calls the wrapper; it enters the function
\* or returns nil.
NoOverlapCall(p) ==
    /\ ut.util = "nooverlap"
    /\ ut.pc[p] = "idle"
    /\ ut' = IF NoOverlapEnters(ut.running)
             THEN [ut EXCEPT !.running = 1, !.exec = @ + 1, !.pc[p] = "fn"]
             ELSE [ut EXCEPT !.ret[p] = Nil, !.pc[p] = "done"]
    /\ UNCHANGED Others

NoOverlapDoneOnSuccess(r) == IF r = Nil THEN 0 ELSE 1

\* adapt_test.go:167: the value the deferred running.Store(0) leaves in the
\* atomic when the function has returned r.
NoOverlapDone(r) == 0

\* adapt_test.go:167-168: the function returns r to caller p and the
\* deferred running.Store(0) runs.
NoOverlapReturn(p, r) ==
    /\ ut.util = "nooverlap"
    /\ ut.pc[p] = "fn"
    /\ ut' = [ut EXCEPT !.running = NoOverlapDone(r), !.ret[p] = r,
                        !.pc[p] = "done"]
    /\ UNCHANGED Others

\* ---------------------------------------------------------------- Sync
\* Sync(lock, fn) built with a free lock (adapt_test.go:93-94): lock is the
\* holder of the lock, 0 when free.
SyncStart ==
    [util |-> "sync", pc |-> [p \in Callers |-> "idle"], lock |-> 0,
     ret |-> [p \in Callers |-> Pending]]

SyncUnlocksOnSuccess(r) == r = Nil

\* adapt_test.go:96: the deferred Unlock runs whatever the function returns.
SyncUnlocks(r) == TRUE

\* adapt_test.go:95: caller p gets the lock.
SyncLock(p) ==
    /\ ut.util = "sync"
    /\ ut.pc[p] = "idle"
    /\ ut.lock = 0
    /\ ut' = [ut EXCEPT !.lock = p, !.pc[p] = "fn"]
    /\ UNCHANGED Others

\* adapt_test.go:96-97: the function returns r to caller p.
SyncReturn(p, r) ==
    /\ ut.util = "sync"
    /\ ut.pc[p] = "fn"
    /\ ut' = [ut EXCEPT !.ret[p] = r, !.pc[p] = "done",
                        !.lock = IF SyncUnlocks(r) THEN 0 ELSE @]
    /\ UNCHANGED Others

\* ------------------------------------------------------------ the calls
\* The results of the functions given to Seq: up to MaxFns functions.
SeqInputs == UNION {[1..n -> Errors] : n \in 0..MaxFns}

\* The attempt counts given to the policies (adapt_test.go:180, 189): an
\* int, here the positive ones up to MaxAttempts, 0 and a negative one.
Attempts == -1..MaxAttempts

\* The calls checked: one call of one combinator.
UtilCalls ==
    {SeqStart(rs) : rs \in SeqInputs}
        \cup {RetryStart(pol, k, c) :
                 pol \in {"simple", "expo"}, k \in Attempts, c \in CtxErrs}
        \cup {LogStart(a, c) : a \in {-1, 0, 1}, c \in CtxErrs}
        \cup {NoOverlapStart, SyncStart}

\* One combinator under call, everything else of the module at rest.
UtilInit ==
    /\ NewTask /\ kind = "test"
    /\ TLFresh("none")
    /\ ut \in UtilCalls

UtilNext ==
    \/ \E c \in {Canceled, DeadlineExceeded} : UCancel(c)
    \/ SeqCall
    \/ SeqEnd
    \/ \E r \in Errors : RetryCall(r)
    \/ RetryConsult
    \/ LogInfo
    \/ \E r \in Errors : LogFn(r)
    \/ LogCase1
    \/ LogCase2
    \/ LogCase3
    \/ \E p \in Callers : NoOverlapCall(p)
    \/ \E p \in Callers, r \in Errors : NoOverlapReturn(p, r)
    \/ \E p \in Callers : SyncLock(p)
    \/ \E p \in Callers, r \in Errors : SyncReturn(p, r)

UtilSpec == UtilInit /\ [][UtilNext]_vars

UtilTypeOK ==
    /\ ut.util \in {"seq", "retry", "log", "nooverlap", "sync"}
    /\ ut.util = "seq" => ut.i \in 1..(MaxFns + 1)
    /\ ut.util = "retry" => (ut.i \in 0..MaxAttempts /\ ut.ctx \in CtxErrs)
    /\ ut.util = "nooverlap" => ut.running \in 0..1
    /\ ut.util = "sync" => ut.lock \in {0} \cup Callers

\* ============================================================ Tick Source
\* Timer-backed Tick Sources used on their own, ticker.go:22-60: a caller
\* creates up to MaxCycles of them with NewTicker and destroys each once; a
\* consumer may receive from a stream but need not.  The forwarding
\* goroutine and the clock are the actions FwdFirst .. FwdSend and ClockTick
\* above.  While the caller is inside Destroy(), ticker is its receiver.

\* ticker.go:22-50: NewTicker makes the Tick Source and starts its
\* forwarding goroutine.
TkNew ==
    /\ callerPc = "idle"
    /\ nTickers < MaxCycles
    /\ nTickers' = nTickers + 1
    /\ fwd' = [fwd EXCEPT ![nTickers + 1] = "first"]
    /\ UNCHANGED <<ut, tlVars, hist, kind, stateMux, ticker, err, wg, ch,
                   closed, stopped, stopMux, tC, loop, ctxDone, ctxCause, inv,
                   nInv, stopPc, callerPc>>

\* The caller calls Destroy() on a Tick Source it has not destroyed yet.
TkCallDestroy(c) ==
    /\ callerPc = "idle"
    /\ c <= nTickers
    /\ ~closed[c]
    /\ callerPc' = "destroy"
    /\ ticker' = c
    /\ UNCHANGED <<ut, tlVars, hist, kind, stateMux, err, wg, nTickers,
                   tickerVars, loop, ctxDone, ctxCause, inv, nInv, stopPc>>

\* ticker.go:52-60: Destroy gets stopMux, sets the stopped flag, closes the
\* stop channel, stops the timer, closes the stream and returns.
TkDestroy ==
    /\ callerPc = "destroy"
    /\ ~stopMux[ticker]
    /\ stopped' = [stopped EXCEPT ![ticker] = TRUE]
    /\ closed' = [closed EXCEPT ![ticker] = StreamClosed]
    /\ callerPc' = "idle"
    /\ ticker' = NoTicker
    /\ UNCHANGED <<ut, tlVars, hist, kind, stateMux, err, wg, nTickers, ch,
                   stopMux, tC, fwd, loop, ctxDone, ctxCause, inv, nInv,
                   stopPc>>

\* A consumer receives the tick in the stream of a Tick Source.
TkRecv(c) ==
    /\ c <= nTickers
    /\ ch[c] = 1
    /\ ch' = [ch EXCEPT ![c] = 0]
    /\ UNCHANGED <<ut, tlVars, hist, kind, stateMux, ticker, err, wg,
                   nTickers, closed, stopped, stopMux, tC, fwd, loop, ctxDone,
                   ctxCause, inv, nInv, stopPc, callerPc>>

TkInit == NewTask /\ kind = "time" /\ TLFresh("none") /\ ut = UtilNone

TkNext ==
    \/ TkNew
    \/ \E c \in Cycles : TkCallDestroy(c)
    \/ TkDestroy
    \/ \E c \in Cycles : TkRecv(c)
    \/ \E c \in Cycles : ClockTick(c)
    \/ \E c \in Cycles : FwdFirst(c)
    \/ \E c \in Cycles : FwdRecv(c)
    \/ \E c \in Cycles : FwdQuit(c)
    \/ \E c \in Cycles : FwdLock(c)
    \/ \E c \in Cycles : FwdSend(c)

TkSpec == TkInit /\ [][TkNext]_vars

\* The goroutines of the program are scheduled: the forwarding goroutines
\* and the caller inside Destroy() take their steps when they can.  Nothing
\* obliges a consumer to receive.
TkFairness ==
    /\ \A c \in Cycles :
          /\ WF_vars(FwdFirst(c))
          /\ WF_vars(FwdRecv(c))
          /\ WF_vars(FwdQuit(c))
          /\ WF_vars(FwdLock(c))
          /\ WF_vars(FwdSend(c))
    /\ WF_vars(TkDestroy)

TkFairSpec == TkSpec /\ TkFairness

\* ================================================================ claims

\* An effective Start: the step of Start that creates a Tick Source.
StartsCycle == nTickers' = nTickers + 1

\* context.Context.Err() of the context of cycle c.
CtxErr(c) == IF ctxDone[c] THEN Canceled ELSE Nil

\* The Tick Sources created and not yet destroyed.
ActiveTickers == {c \in 1..nTickers : ~closed[c]}

\* An invocation of cycle c is about to record an error: failed[c] is set
\* by the step that brings it there.
AboutToRecord(c) == \E i \in Invs : inv[i].pc = "lock" /\ inv[i].cyc = c

\* C1: an invocation that has returned error E with its context live (it is
\* about to record it) leads to Error() = E and to the Tick Source of its
\* cycle being destroyed; and a Stop() spawned by an invocation, running
\* after a failure was recorded in the cycle, leaves Error() a task error.
\* The two "leads to" are stated through what is stable: an invocation
\* about to record E keeps E until the step that records, which makes
\* Error() = E, and from some point on no invocation is still about to
\* record; failed[c] and closed[c] never go back to FALSE, failed[c] covers
\* AboutToRecord(c), and from some point on every cycle that failed is
\* destroyed.
C1_StopOnError ==
    /\ [][\A i \in Invs : inv[i].pc = "lock" =>
             IF inv'[i].pc = "lock" THEN inv'[i].res = inv[i].res
                                   ELSE err' = inv[i].res]_vars
    /\ [](\A c \in Cycles : AboutToRecord(c) => failed[c])
    /\ [][\A c \in Cycles : (failed[c] => failed'[c])
                            /\ (closed[c] => closed'[c])]_vars
    /\ <>[](/\ \A i \in Invs : inv[i].pc # "lock"
            /\ \A c \in Cycles : failed[c] => closed[c])
    /\ [][\A p \in Invs :
            (StopDestroy(p) /\ recorded) => (err \in TaskErrs /\ err' = err)]_vars

\* The Tick Source was destroyed by the Stop() the failing invocation
\* spawned, no caller Stop() involved, and Error() is the task's error.
C1_Witness ==
    /\ nTickers = 1
    /\ ticker = NoTicker
    /\ closed[1]
    /\ failed[1]
    /\ ~StopSeen
    /\ callerPc # "stop"
    /\ err \in TaskErrs
    /\ \A p \in Stoppers : stopPc[p] = "none"

\* C2: once an invocation of a cycle has returned a non-nil error with its
\* context live, the loop of that cycle spawns no further invocation.
C2_NoSpawnAfterFailure ==
    [][\A c \in Cycles : failed[c] => spawned'[c] = spawned[c]]_vars

\* C3: when a caller Stop() that destroyed the Tick Source has returned and no
\* invocation has recorded a failure since the Start, Error() is ErrStopped.
C3_StopRecordsStopped ==
    (lastOp = "stop" /\ ~recorded) => err = ErrStopped

C3_Witness ==
    /\ lastOp = "stop"
    /\ callerPc = "idle"
    /\ ~recorded
    /\ \A c \in Cycles : ~failed[c]
    /\ nInv >= 1
    /\ err = ErrStopped

\* C4: a non-nil Error() changes only by a Start() that moves the task from
\* Stopped to Running.
C4_ErrorPersists ==
    [][err # Nil => (err' = err \/ StartsCycle)]_vars

\* C5 as claimed: Error() is nil exactly when a Tick Source is active and no
\* invocation has failed, the never started task included.
C5_NilIffActive ==
    (err = Nil) <=> (ticker # NoTicker /\ ~recorded)

\* C5 amended: Error() is nil exactly when the task was never started, or a
\* Tick Source is active and no invocation has recorded a failure since the
\* last Start() that took effect.
C5_NilIffActiveOrFresh ==
    (err = Nil) <=> (nTickers = 0 \/ (ticker # NoTicker /\ ~recorded))

C5_Witness ==
    /\ nTickers = MaxCycles
    /\ ticker # NoTicker
    /\ err = Nil
    /\ failed[1]
    /\ nInv >= 2

\* C6: Start() with a Tick Source active changes neither the ticker handle nor
\* the error and creates no Tick Source and no loop; at most one Tick Source
\* is active in every state.
C6_StartIdempotent ==
    /\ [](Cardinality(ActiveTickers) <= 1)
    /\ [][(Start /\ ticker # NoTicker)
            => UNCHANGED <<ticker, err, nTickers, wg, loop, fwd, ch, closed,
                           stopped>>]_vars

C6_Witness ==
    /\ lastOp = "startNoop"
    /\ callerPc = "idle"
    /\ ticker # NoTicker
    /\ Cardinality(ActiveTickers) = 1

\* C7: Stop() with no Tick Source active destroys nothing, takes no lock
\* beyond its test, and leaves the stored error as it is.
C7_StopIdempotent ==
    [][\A p \in Stoppers :
          (StopLock(p) /\ ticker = NoTicker)
            => /\ UNCHANGED <<ticker, err, stateMux, closed, stopped, stopMux>>
               /\ stopPc'[p] = "none"]_vars

C7_Witness ==
    /\ lastOp = "stopNoop"
    /\ callerPc = "idle"
    /\ err \in TaskErrs

\* C8: the loop of every cycle of a task with the timer-backed Tick Source
\* spawns an invocation for the immediate first tick: a loop that has
\* finished has spawned at least one.
C8_StartSpawns ==
    \A c \in Cycles : (kind = "time" /\ loop[c] = "done") => spawned[c] >= 1

\* C9: timer-backed Tick Source, no period boundary reached: after n cycles of
\* Start(); Stop(); Wait() the task function has been invoked n times.
C9_OnePerCycle ==
    (kind = "time" /\ clockTicks = 0 /\ script >= 0 /\ script % 3 = 0)
        => nInv = script \div 3

\* C10: when Wait() has returned after a Stop() with no Start() in between,
\* every loop has exited and no invocation is still running.
C10_WaitJoins ==
    lastOp = "waitStopped"
        => /\ \A c \in 1..nTickers : loop[c] = "done"
           /\ \A i \in Invs : inv[i].pc \in {"none", "done"}

C10_Witness ==
    /\ lastOp = "waitStopped"
    /\ callerPc = "idle"
    /\ nTickers >= 1
    /\ nInv >= 1

\* C11: a Stop() the caller has entered returns, also in the runs where an
\* invocation stays inside the task function forever, and no step of a
\* Stop() changes the state of an invocation.
C11_StopDoesNotWait ==
    /\ (callerPc = "stop") ~> (callerPc = "idle")
    /\ [][\A p \in Stoppers :
            (StopLock(p) \/ StopDestroy(p)) => inv' = inv]_vars

\* The caller's Stop() has destroyed the Tick Source and returned while an
\* invocation is still inside the task function, its context not cancelled.
C11_Witness ==
    /\ lastOp = "stop"
    /\ callerPc = "idle"
    /\ \E i \in Invs : inv[i].pc = "fn" /\ ~ctxDone[inv[i].cyc]

\* C12: once the stream of a cycle is closed, the context its invocations
\* hold is eventually cancelled, and a cancelled context has Err() equal to
\* context.Canceled and cause ErrStopped.  closed[c] and ctxDone[c] never
\* go back to FALSE, so "closed leads to cancelled" is: from some point on
\* every closed cycle is cancelled.
C12_CancelOnStop ==
    /\ <>[](\A c \in Cycles : closed[c] => ctxDone[c])
    /\ [](\A c \in Cycles :
            ctxDone[c] => (CtxErr(c) = Canceled /\ ctxCause[c] = ErrStopped))

\* An invocation of a destroyed cycle is still inside the task function and
\* its context is cancelled with cause ErrStopped.
C12_Witness ==
    \E i \in Invs :
        /\ inv[i].pc = "fn"
        /\ closed[inv[i].cyc]
        /\ ctxDone[inv[i].cyc]
        /\ ctxCause[inv[i].cyc] = ErrStopped

\* C13: an invocation that returns with its context cancelled finishes
\* without recording anything, whatever it returns; and once Error() is
\* ErrStopped, every context is cancelled and no invocation is about to
\* record, Error() stays ErrStopped until the next effective Start.
C13_LateErrorDropped ==
    [][/\ \A i \in Invs :
             (inv[i].pc = "fn" /\ ctxDone[inv[i].cyc] /\ inv'[i].pc # "fn")
                 => (inv'[i].pc = "done" /\ err' = err /\ stopPc'[i] = "none")
       /\ (/\ err = ErrStopped
           /\ \A c \in 1..nTickers : ctxDone[c]
           /\ \A i \in Invs : inv[i].pc # "lock")
              => (err' = ErrStopped \/ StartsCycle)]_vars

\* The caller's Stop() returned, no invocation has failed with a live
\* context, an invocation has since returned a non-nil error with its context
\* cancelled, and Error() is ErrStopped.
C13_Witness ==
    /\ lastOp = "stop"
    /\ callerPc = "idle"
    /\ dropped
    /\ ~recorded
    /\ \A c \in Cycles : ~failed[c]
    /\ err = ErrStopped

\* The task function has returned nil every time it returned.
NeverFails == ~dropped /\ \A c \in Cycles : ~failed[c]

C19_ExactlyOneTick ==
    \A c \in Cycles :
        (kind = "time" /\ clockTicks = 0 /\ loop[c] = "done")
            => spawned[c] = 1

\* C20: the forwarding goroutine of a timer-backed Tick Source puts a tick
\* in the stream, or waits to put one, only while the stream is open.
C20_NoSendAfterClose ==
    [][\A c \in Cycles :
          kind = "time" =>
              /\ ch'[c] > ch[c] => ~closed[c]
              /\ fwd[c] = "send" => ~closed[c]]_vars

\* The forwarding goroutine came to its first tick after Destroy() had
\* closed the stream and went on to its select without sending.
C20_Witness ==
    \E c \in Cycles :
        /\ kind = "time"
        /\ closed[c]
        /\ fwd[c] = "select"
        /\ clockTicks = 0
        /\ spawned[c] = 0
        /\ ch[c] = 0

\* Some invocation of the TickLoop call has returned a non-nil error.
TLAnyError == tlFirst # Nil \/ tlDiscarded

\* C15: a TickLoop call whose stream is open and whose parent context is
\* live, and in which an invocation failed first with E, returns E.
C15_ReturnsFirstError ==
    (tlPc = "returned" /\ tlFirst # Nil /\ ~tlClosed /\ ~tlParent)
        => tlRet = tlFirst

\* C16: a TickLoop call whose stream has been closed, whose parent context
\* is live and in which no invocation returned an error, returns ErrStopped
\* after spawning one invocation per tick put in the stream.
C16_ClosedStream ==
    (tlPc = "returned" /\ tlClosed /\ ~tlParent /\ ~TLAnyError)
        => (tlRet = ErrStopped /\ tlN = tlSent)

\* The stream was closed after MaxTLTicks ticks; TickLoop returned ErrStopped
\* with MaxTLTicks invocations spawned.
C16_Witness ==
    /\ tlPc = "returned"
    /\ tlClosed
    /\ ~tlParent
    /\ ~TLAnyError
    /\ tlSent = MaxTLTicks
    /\ tlN = MaxTLTicks
    /\ tlRet = ErrStopped

\* C17: a TickLoop call whose stream is open and in which no invocation
\* returned an error returns only on the cancellation of the parent context,
\* with context.Canceled, after spawning one invocation per tick it took
\* from the stream.
C17_ParentCancelled ==
    (tlPc = "returned" /\ ~tlClosed /\ ~TLAnyError)
        => (tlParent /\ tlRet = Canceled /\ tlN = tlSent - tlTicks)

\* The parent context was cancelled after two ticks were taken; TickLoop
\* returned context.Canceled with two invocations spawned.
C17_Witness ==
    /\ tlPc = "returned"
    /\ ~tlClosed
    /\ ~TLAnyError
    /\ tlParent
    /\ tlRet = Canceled
    /\ tlSent = 2
    /\ tlTicks = 0
    /\ tlN = 2

\* C18: an invocation that returns after TickLoop has returned finishes at
\* once without sending, whatever it returns, and at most one invocation of
\* a TickLoop call ever gets to send on errCh.
C18_LateErrorDiscarded ==
    [][/\ \A i \in TLInvs :
             (tlPc = "returned" /\ tlInv[i].pc = "fn" /\ tlInv'[i].pc # "fn")
                 => (tlInv'[i].pc = "done" /\ tlInv'[i].res = Nil)
       /\ Cardinality({i \in TLInvs : tlInv'[i].res # Nil}) <= 1]_vars

\* TickLoop returned on the closed stream or the cancelled context; an
\* invocation has since returned a non-nil error and finished, nothing sent.
C18_Witness ==
    /\ tlPc = "returned"
    /\ tlRet \in {ErrStopped, Canceled}
    /\ tlFirst = Nil
    /\ tlDiscarded
    /\ \A i \in TLInvs : tlInv[i].pc \in {"none", "done"}

\* The Tick Source of cycle c has been destroyed.
Destroyed(c) == c <= nTickers /\ ticker # c

\* C21: after Destroy() the stream is closed; a tick in a closed stream
\* leaves it only by being received, the consumer ends only on the drained
\* stream, and it does end: from some moment on the consumer of every
\* destroyed source has terminated (neither a destroyed source nor a
\* terminated consumer ever comes back).
C21_ConsumerSeesClosure ==
    /\ <>[](\A c \in Cycles : Destroyed(c) => loop[c] = "done")
    /\ [](\A c \in Cycles : Destroyed(c) => closed[c])
    /\ [][\A c \in Cycles :
            closed[c] =>
                /\ ch'[c] <= ch[c]
                /\ ch'[c] < ch[c] => spawned'[c] = spawned[c] + 1
                /\ (loop[c] # "done" /\ loop'[c] = "done") => ch[c] = 0]_vars

\* Destroy() has closed the stream with a tick placed in it that the
\* consumer has yet to receive.
C21_Witness ==
    \E c \in Cycles :
        Destroyed(c) /\ closed[c] /\ ch[c] = 1 /\ loop[c] = "run"

\* C22: the forwarding goroutine takes a clock tick only from its select,
\* and a tick it holds leaves its hands, while the source is not destroyed,
\* only into the free slot of the stream.
C22_ForwarderDropsNone ==
    [][\A c \in Cycles :
          kind = "time" =>
              /\ tC'[c] < tC[c] => (fwd[c] = "select" /\ fwd'[c] = "lock")
              /\ (fwd[c] \in {"lock", "send"} /\ fwd'[c] = "select"
                    /\ ~stopped[c])
                     => (ch[c] = 0 /\ ch'[c] = 1)]_vars

\* The immediate tick and a clock tick of a source that is not destroyed
\* have both reached the consumer.
C22_Witness ==
    \E c \in Cycles :
        /\ kind = "time"
        /\ ~stopped[c]
        /\ fwd[c] = "select"
        /\ clockTicks = 1
        /\ spawned[c] = 2

\* C30: an invocation inside the task function does not hold stateMux,
\* and an invocation waiting for stateMux has the value its task function
\* returned.
C30_NoLockAcrossFn ==
    \A i \in Invs :
        /\ inv[i].pc = "fn" => stateMux # i
        /\ inv[i].pc = "lock" => inv[i].res # Nil

\* An invocation is inside the task function while another goroutine, a
\* Stop(), holds stateMux.
C30_Witness ==
    \E i \in Invs : inv[i].pc = "fn" /\ stateMux \in Stoppers \ {i}

\* The callers of the NoOverlap wrapper inside the function.
NoInFlight == {p \in Callers : ut.pc[p] = "fn"}

\* C23: at most one caller of a NoOverlap wrapper is inside the function,
\* and a call made while one is returns nil at once without starting an
\* execution.
C23_NoOverlap ==
    [][ut.util = "nooverlap" =>
          /\ Cardinality({p \in Callers : ut'.pc[p] = "fn"}) <= 1
          /\ \A p \in Callers :
                (ut.pc[p] = "idle" /\ ut'.pc[p] # "idle" /\ NoInFlight # {})
                    => (/\ ut'.pc[p] = "done"
                        /\ ut'.ret[p] = Nil
                        /\ ut'.exec = ut.exec)]_vars

\* One execution is in flight, every other caller has called and got nil:
\* one execution for MaxCallers attempts.
C23_Witness ==
    /\ ut.util = "nooverlap"
    /\ Cardinality(NoInFlight) = 1
    /\ \A p \in Callers \ NoInFlight : ut.pc[p] = "done" /\ ut.ret[p] = Nil
    /\ ut.exec = 1

\* The last error the attempts of Retry returned.
RetryLast == ut.res[Len(ut.res)]

\* C24: Retry with a policy of k >= 1 attempts returned with its context
\* live.  If every attempt failed (with an error other than ErrStopped), the
\* attempts are as many as the policy's count and the last error is
\* returned; if the first attempt succeeded, it is the only one and nil is
\* returned.
C24_RetryCounts ==
    (ut.util = "retry" /\ ut.k >= 1 /\ ut.pc = "done" /\ ut.ctx = Nil) =>
        /\ (\A j \in 1..Len(ut.res) : ut.res[j] \in TaskErrs)
               => (Len(ut.res) = ut.k /\ ut.err = RetryLast)
        /\ ut.res[1] = Nil => (Len(ut.res) = 1 /\ ut.err = Nil)

\* The exponential policy with MaxAttempts attempts, all failed.
C24_Witness ==
    /\ ut.util = "retry"
    /\ ut.pc = "done"
    /\ ut.ctx = Nil
    /\ ut.policy = "expo"
    /\ ut.k = MaxAttempts
    /\ Len(ut.res) = MaxAttempts
    /\ \A j \in 1..Len(ut.res) : ut.res[j] \in TaskErrs
    /\ ut.err = "E2"

\* C25: an attempt that returned ErrStopped is the last one; Retry has
\* returned ErrStopped and the policy was consulted only after the attempts
\* before it.
C25_RetryStopped ==
    ut.util = "retry" =>
        \A j \in 1..Len(ut.res) :
            ut.res[j] = ErrStopped =>
                /\ j = Len(ut.res)
                /\ ut.pc = "done"
                /\ ut.err = ErrStopped
                /\ ut.asked = j - 1

\* A retry (the second attempt of three allowed) returned ErrStopped.
C25_Witness ==
    /\ ut.util = "retry"
    /\ ut.pc = "done"
    /\ ut.ctx = Nil
    /\ ut.k = MaxAttempts
    /\ ut.res = <<"E1", ErrStopped>>
    /\ ut.err = ErrStopped

\* C26: a policy consulted with the context cancelled or past its deadline
\* ends Retry, and a Retry called with such a context makes one attempt and
\* returns what it returned.
C26_RetryCancelled ==
    [][ut.util = "retry" =>
          /\ (ut.pc = "policy" /\ ut.ctx # Nil)
                 => ut'.pc \in {"policy", "done"}
          /\ (ut'.pc = "done" /\ ut.ctx0 # Nil)
                 => (Len(ut'.res) = 1 /\ ut'.err = ut'.res[1])]_vars

\* Called with a cancelled context and the exponential policy of
\* MaxAttempts attempts, Retry returned the error of its one attempt.
C26_Witness ==
    /\ ut.util = "retry"
    /\ ut.pc = "done"
    /\ ut.ctx0 = Canceled
    /\ ut.policy = "expo"
    /\ ut.k = MaxAttempts
    /\ ut.res = <<"E1">>
    /\ ut.asked = 1
    /\ ut.err = "E1"

\* The functions given to Seq that return an error.
SeqFailing == {j \in 1..Len(ut.res) : ut.res[j] # Nil}
SeqFirstFailing == CHOOSE j \in SeqFailing : \A k \in SeqFailing : j <= k

\* C27: Seq calls the functions 1, 2, ... in this order, each once; when it
\* has returned, the calls end with the first function that fails, whose
\* error is returned, or, if none fails, with the last function, and nil is
\* returned.
C27_SeqOrder ==
    ut.util = "seq" =>
        /\ ut.calls = [j \in 1..Len(ut.calls) |-> j]
        /\ ut.pc = "done" =>
              IF SeqFailing = {}
              THEN Len(ut.calls) = Len(ut.res) /\ ut.ret = Nil
              ELSE /\ Len(ut.calls) = SeqFirstFailing
                   /\ ut.ret = ut.res[SeqFirstFailing]

\* Of three functions the second and the third fail; Seq called the first
\* two and returned the error of the second.
C27_Witness ==
    /\ ut.util = "seq"
    /\ ut.pc = "done"
    /\ ut.res = <<Nil, "E1", "E2">>
    /\ ut.calls = <<1, 2>>
    /\ ut.ret = "E1"

\* C28: the caller inside the function of a Sync wrapper holds the lock,
\* so there is at most one; a caller whose call has returned does not hold
\* it, and with no caller inside the function the lock is free.
C28_SyncLock ==
    ut.util = "sync" =>
        /\ \A p \in Callers : ut.pc[p] = "fn" <=> ut.lock = p
        /\ Cardinality({p \in Callers : ut.pc[p] = "fn"}) <= 1

\* A call has returned an error and another caller is now inside the
\* function, holding the lock.
C28_Witness ==
    /\ ut.util = "sync"
    /\ \E p, q \in Callers :
          /\ ut.pc[p] = "done"
          /\ ut.ret[p] \in TaskErrs
          /\ ut.pc[q] = "fn"
          /\ ut.lock = q

\* C29: the info sink has one record from before the function is called
\* on; the error sink never has more than one; once the call has returned
\* it has one if the function returned an error or the context was
\* cancelled or past its deadline when the function returned, and none if
\* the function returned nil and the context is still live.
C29_LogRecords ==
    ut.util = "log" =>
        /\ Len(ut.out) = IF ut.pc = "start" THEN 0 ELSE 1
        /\ Len(ut.errW) <= 1
        /\ ut.pc \in {"start", "fn"} => Len(ut.errW) = 0
        /\ ut.pc = "done" =>
              /\ (ut.err # Nil \/ ut.ctxRet # Nil) => Len(ut.errW) = 1
              /\ (ut.err = Nil /\ ut.ctx = Nil) => Len(ut.errW) = 0

\* The function returned nil past the deadline of the context: one info
\* record, one record in the error sink.
C29_Witness ==
    /\ ut.util = "log"
    /\ ut.pc = "done"
    /\ ut.err = Nil
    /\ ut.ctxRet = DeadlineExceeded
    /\ ut.out = <<"Calling">>
    /\ ut.errW = <<"deadline exceeded">>

\* The invocations of cycle c inside the task function.
InFn(c) == {i \in Invs : inv[i].cyc = c /\ inv[i].pc = "fn"}

\* C31: a step that takes a tick from the stream of a cycle spawns exactly
\* one invocation of the task function, in that cycle and counted in the
\* wait group, and invocations are spawned by such steps only; the loop of a
\* running cycle whose stream holds a tick can take it whatever the earlier
\* invocations are doing.
C31_OnePerTick ==
    /\ [][\A c \in Cycles : ch'[c] < ch[c] =>
             /\ nInv' = nInv + 1
             /\ spawned'[c] = spawned[c] + 1
             /\ inv'[nInv'].cyc = c /\ inv'[nInv'].pc = "fn"
             /\ wg' = wg + 1
             /\ \A i \in Invs \ {nInv'} : inv'[i] = inv[i]]_vars
    /\ [][nInv' # nInv => \E c \in Cycles : ch'[c] < ch[c]]_vars
    /\ [](\A c \in Cycles :
            (loop[c] = "run" /\ ch[c] = 1) => ENABLED LoopTick(c))

\* The invocations of the first and of the second tick of a cycle are both
\* inside the task function.
C31_Witness ==
    \E c \in Cycles : spawned[c] = 2 /\ Cardinality(InFn(c)) = 2

\* C32: the atomic of a NoOverlap wrapper is 1 exactly while an execution of
\* the function is in flight, whatever the executions before returned; so a
\* call made when every earlier execution has completed enters the function
\* and starts a new execution.
C32_NoOverlapClears ==
    /\ [](ut.util = "nooverlap" =>
            (ut.running = 1 <=> NoInFlight # {}))
    /\ [][ut.util = "nooverlap" =>
            \A p \in Callers :
                (ut.pc[p] = "idle" /\ ut'.pc[p] # "idle" /\ NoInFlight = {})
                    => (ut'.pc[p] = "fn" /\ ut'.exec = ut.exec + 1)]_vars

\* An execution returned an error, another returned nil, and a call made
\* after them is inside the function: the third execution.
C32_Witness ==
    /\ ut.util = "nooverlap"
    /\ \E p, q, r \in Callers :
          /\ ut.pc[p] = "done" /\ ut.ret[p] \in TaskErrs
          /\ ut.pc[q] = "done" /\ ut.ret[q] = Nil
          /\ ut.pc[r] = "fn"
    /\ ut.exec = 3

\* C33: no invocation of a TickLoop call is in the send on errCh, or about
\* to make it, when the deferred close(errCh) runs: none panics with a send
\* on the closed channel.
C33_NoSendOnClosed ==
    /\ \A i \in TLInvs : tlInv[i].pc # "panic"
    /\ tlErrClosed => \A i \in TLInvs : tlInv[i].pc # "send"

\* C34: the Stop() spawned by an invocation destroys only the Tick Source of
\* the cycle that invocation belongs to, and an invocation records its
\* error only while its own cycle is current or no cycle is.
C34_CycleEndsItself ==
    [][\A i \in Invs :
          /\ StopDestroy(i) => inv[i].cyc = ticker
          /\ RunRecord(i) => ticker \in {NoTicker, inv[i].cyc}]_vars

\* C35: a caller inside Destroy() of a timer-backed Tick Source eventually
\* returns from it, whether or not a consumer receives from the stream.
C35_DestroyReturns == (callerPc = "destroy") ~> (callerPc = "idle")

\* C36: a Start() or Stop() the caller has entered returns, every Stop()
\* spawned by an invocation returns, and the state lock is free again and
\* again, so that Error() gets its read lock.  The state lock is held only
\* by a Stop() between its test and its return, and a forwarding goroutine
\* blocked in its send with the stop lock held has the loop of its cycle
\* running, which takes the tick without any lock.  The caller leaves
\* Start() and Stop() by returning only, so "entered leads to returned" is:
\* again and again the caller is outside both.
C36_CallsReturn ==
    /\ []<>(callerPc \notin {"start", "stop"})
    /\ <>[](\A p \in Invs : stopPc[p] = "none")
    /\ []<>(stateMux = Free)
    /\ [](\A p \in Stoppers : stateMux = p => stopPc[p] = "destroy")
    /\ [](\A c \in Cycles : fwd[c] = "send" => (stopMux[c] /\ loop[c] = "run"))

\* The caller's Stop() holds the state lock and waits for the stop lock,
\* held by the forwarding goroutine blocked in its send on the full stream.
C36_Witness ==
    /\ callerPc = "stop"
    /\ stopPc[Caller] = "destroy"
    /\ stateMux = Caller
    /\ stopMux[ticker]
    /\ fwd[ticker] = "send"
    /\ ch[ticker] = 1

\* C37: a Stop() calls Destroy() on a Tick Source that has not been
\* destroyed, and a stream once closed is not closed again: the step that
\* closes a stream is the only one that changes whether it is closed.
C37_DestroyOnce ==
    [][/\ \A p \in Stoppers :
             StopDestroy(p) =>
                 (ticker # NoTicker /\ ~closed[ticker] /\ ~stopped[ticker])
       /\ \A c \in Cycles :
             closed'[c] # closed[c] =>
                 (~closed[c] /\ \E p \in Stoppers : StopDestroy(p))]_vars

\* The caller's Stop() and the Stop() spawned by a failed invocation have
\* both run against the only cycle: one destroyed its Tick Source, the
\* other found none.
C37_Witness ==
    /\ nTickers = 1
    /\ closed[1]
    /\ failed[1]
    /\ recorded
    /\ lastOp \in {"stop", "stopNoop"}
    /\ callerPc = "idle"
    /\ \A i \in Invs : inv[i].pc \in {"none", "done"}
    /\ \A p \in Stoppers : stopPc[p] = "none"

\* C38: the first attempt of Retry is made before the policy is consulted,
\* so a Retry that has returned made at least one; with SimpleRetryPolicy(k),
\* k <= 0, it made exactly one and returned what that attempt returned.
C38_RetryAtLeastOnce ==
    ut.util = "retry" =>
        /\ ut.asked <= Len(ut.res)
        /\ ut.pc = "done" => Len(ut.res) >= 1
        /\ (ut.pc = "done" /\ ut.policy = "simple" /\ ut.k <= 0)
               => (Len(ut.res) = 1 /\ ut.err = ut.res[1])

\* Retry(SimpleRetryPolicy(0), fn) with a live context and a failing fn
\* consulted the policy once and returned the error of its one attempt.
C38_Witness ==
    /\ ut.util = "retry"
    /\ ut.pc = "done"
    /\ ut.policy = "simple"
    /\ ut.k = 0
    /\ ut.ctx = Nil
    /\ ut.res = <<"E2">>
    /\ ut.asked = 1
    /\ ut.err = "E2"
====
